---- MODULE Spec2Model ----
(***************************************************************************)
(* The TIN mesh kernel of threejs-editor: TinMesh (core/TinMesh.ts) over   *)
(* the geometry helpers (utils/geometry).  Indices are 0-based as in the   *)
(* TypeScript; TLA+ sequences are 1-based, so element i of an array is     *)
(* s[i + 1].                                                               *)
(***************************************************************************)
EXTENDS Integers, Sequences, FiniteSets, TLC

\* Longest point list handed to setPoints.
MaxPoints == 4

\* The sample points: the corners of the 5 x 5 square of the specification's
\* concrete scenarios, in the scenario's order.
Square ==
  << [x |-> 0, y |-> 0, z |-> 0], [x |-> 5, y |-> 0, z |-> 0],
     [x |-> 0, y |-> 5, z |-> 0], [x |-> 5, y |-> 5, z |-> 0] >>

Range(s) == {s[i] : i \in DOMAIN s}

Universe == Range(Square)

\* The point lists handed to setPoints: pairwise distinct sample points in
\* any order, up to MaxPoints of them.
PointLists ==
  { s \in UNION {[1..n -> Universe] : n \in 0..MaxPoints} :
      \A i, j \in DOMAIN s : i # j => s[i] # s[j] }

\* The prefixes of the square.
SquarePrefixes == {SubSeq(Square, 1, n) : n \in 0..Len(Square)}

\* A 2 x 2 square out of order, one corner raised: points near enough to one
\* another for a pick to find two of them at the same distance.
Near ==
  << [x |-> 2, y |-> 0, z |-> 0], [x |-> 0, y |-> 0, z |-> 0],
     [x |-> 0, y |-> 2, z |-> 0], [x |-> 2, y |-> 2, z |-> 1] >>

\* The point lists of the meshes that are picked from.
PickLists == {Square, Near}

VARIABLES
  points,         \* TinMesh.points: RawPointList
  deletedPoints,  \* TinMesh.deletedPoints: raw indices soft-deleted
  triangles,      \* TinMesh.triangles: TriangleSet
  fired,          \* number of onChange invocations made by the last call
  observed,       \* the mesh state the onChange subscriber read when last invoked
  thrown,         \* the last call ended by an exception from the triangulator
  lastOp,         \* name of the last public method called
  hadDeleted,     \* some triangle was flagged deleted when the last call began
  hadDeletedPoints, \* some point was soft-deleted when the last call began
  invoked,        \* the point counts new Delaunator was given by the last call
  call,           \* the pick query made since the last method call, if any
  result,         \* what that query returned: {} for null
  edgesDeleted,   \* the keys deleteEdge was given since triangles was last
                  \* rebuilt, where picks are made on the mesh on its own
  editMode,       \* App.editMode
  currentMode,    \* Toolbar.currentMode
  tablePoints,    \* PointTable.points
  lastEvent       \* the UI event last handled

meshVars ==
  <<points, deletedPoints, triangles, fired, observed, thrown, lastOp,
    hadDeleted, hadDeletedPoints, invoked>>

queryVars == <<call, result, edgesDeleted>>

appVars == <<editMode, currentMode, tablePoints, lastEvent>>

vars == <<meshVars, queryVars, appVars>>

----------------------------------------------------------------------------
(* The external planar triangulation (package delaunator).                 *)

\* Delaunator(coords).triangles: a flat array of point indices, three per
\* triangle, for the flat coordinate array [x0, y0, x1, y1, ...].  The
\* Delaunay triangles of the distinct points (a repeated coordinate pair is
\* skipped); points on a common circle are triangulated as a fan from their
\* lowest index; collinear input gives no triangle.  Each triple is listed
\* counter-clockwise from its lowest index, triples in lexicographic order.
Delaunator(coords) ==
  LET n == Len(coords) \div 2
      X(i) == coords[2 * i + 1]
      Y(i) == coords[2 * i + 2]
      Reps == {i \in 0..(n - 1) :
                 \A j \in 0..(i - 1) : X(j) # X(i) \/ Y(j) # Y(i)}
      Orient(i, j, k) ==
        (X(j) - X(i)) * (Y(k) - Y(i)) - (Y(j) - Y(i)) * (X(k) - X(i))
      Sq(v) == v * v
      Det(i, j, k, d) ==
        LET adx == X(i) - X(d)  ady == Y(i) - Y(d)
            bdx == X(j) - X(d)  bdy == Y(j) - Y(d)
            cdx == X(k) - X(d)  cdy == Y(k) - Y(d)
            ad2 == Sq(adx) + Sq(ady)
            bd2 == Sq(bdx) + Sq(bdy)
            cd2 == Sq(cdx) + Sq(cdy)
        IN  adx * (bdy * cd2 - cdy * bd2)
              - ady * (bdx * cd2 - cdx * bd2)
              + ad2 * (bdx * cdy - cdx * bdy)
      \* > 0: d strictly inside the circumcircle of i, j, k; = 0: on it
      InCircle(i, j, k, d) ==
        IF Orient(i, j, k) > 0 THEN Det(i, j, k, d) ELSE 0 - Det(i, j, k, d)
      OnCircle(i, j, k) == {d \in Reps : InCircle(i, j, k, d) = 0}
      IsTriangle(i, j, k) ==
        /\ i < j /\ j < k
        /\ Orient(i, j, k) # 0
        /\ \A d \in Reps : InCircle(i, j, k, d) <= 0
        /\ \A d \in OnCircle(i, j, k) : i <= d
        /\ \A d \in OnCircle(i, j, k) \ {i, j, k} :
              Orient(j, k, d) * Orient(j, k, i) > 0
      Triples ==
        UNION {UNION {{<<i, j, k>> : k \in {c \in Reps : c > j /\ IsTriangle(i, j, c)}} :
                        j \in {b \in Reps : b > i}} :
                 i \in Reps}
      Ccw(t) == IF Orient(t[1], t[2], t[3]) > 0 THEN t ELSE <<t[1], t[3], t[2]>>
      Less(s, t) ==
        \/ s[1] < t[1]
        \/ s[1] = t[1] /\ s[2] < t[2]
        \/ s[1] = t[1] /\ s[2] = t[2] /\ s[3] < t[3]
      RECURSIVE Flat(_)
      Flat(S) ==
        IF S = {} THEN <<>>
        ELSE LET t == CHOOSE u \in S : \A v \in S \ {u} : Less(u, v)
             IN  Ccw(t) \o Flat(S \ {t})
  IN  Flat(Triples)

----------------------------------------------------------------------------
(* utils/geometry                                                          *)

\* points.flatMap(p => [p.x, p.y])
FlatCoords(pts) ==
  [i \in 1..(2 * Len(pts)) |->
     IF i % 2 = 1 THEN pts[(i + 1) \div 2].x ELSE pts[i \div 2].y]

computeDelaunay(pts) ==
  IF Len(pts) < 3 THEN <<>>
  ELSE LET delaunay == Delaunator(FlatCoords(pts))
       IN  [k \in 1..(Len(delaunay) \div 3) |->
              [indices |-> <<delaunay[3 * k - 2], delaunay[3 * k - 1], delaunay[3 * k]>>,
               deleted |-> FALSE]]
\* computeDelaunay without the early return for fewer than 3 points.
delaunatorCallsUnguarded(pts) == {Len(pts)}

\* The point counts computeDelaunay hands to new Delaunator: none below 3
\* points.
delaunatorCalls(pts) == IF Len(pts) < 3 THEN {} ELSE {Len(pts)}
\* getEdgeKey that writes the two indices in the order given.
getEdgeKeyAsGiven(a, b) == ToString(a) \o "-" \o ToString(b)

getEdgeKey(a, b) ==
  IF a < b THEN ToString(a) \o "-" \o ToString(b)
           ELSE ToString(b) \o "-" \o ToString(a)

getTriangleEdges(tri) ==
  LET i0 == tri.indices[1]
      i1 == tri.indices[2]
      i2 == tri.indices[3]
  IN  << [a |-> i0, b |-> i1, key |-> getEdgeKey(i0, i1)],
         [a |-> i1, b |-> i2, key |-> getEdgeKey(i1, i2)],
         [a |-> i2, b |-> i0, key |-> getEdgeKey(i2, i0)] >>

NonNegative(v) == v >= 0
\* trianglesUsingPoint without the test of the deleted flag.
trianglesUsingPointOfAll(tris, pointIndex) ==
  SelectSeq([i \in 1..Len(tris) |->
               IF pointIndex \in Range(tris[i].indices) THEN i - 1 ELSE -1],
            NonNegative)

trianglesUsingPoint(tris, pointIndex) ==
  SelectSeq([i \in 1..Len(tris) |->
               IF pointIndex \in Range(tris[i].indices) /\ ~tris[i].deleted
               THEN i - 1 ELSE -1],
            NonNegative)
\* trianglesWithEdge that stops at the first triangle it finds.
trianglesWithEdgeFirst(tris, edgeKey) ==
  LET found == {i \in 1..Len(tris) :
                  /\ ~tris[i].deleted
                  /\ \E e \in Range(getTriangleEdges(tris[i])) : e.key = edgeKey}
  IN  IF found = {} THEN <<>>
      ELSE << (CHOOSE i \in found : \A j \in found : i <= j) - 1 >>

trianglesWithEdge(tris, edgeKey) ==
  SelectSeq([i \in 1..Len(tris) |->
               IF tris[i].deleted THEN -1
               ELSE IF \E e \in Range(getTriangleEdges(tris[i])) : e.key = edgeKey
                    THEN i - 1 ELSE -1],
            NonNegative)

----------------------------------------------------------------------------
(* core/TinMesh.ts                                                         *)

\* this.points.filter((_, i) => !this.deletedPoints.has(i))
getActivePoints(pts, del) ==
  LET RECURSIVE Filter(_)
      Filter(i) ==
        IF i >= Len(pts) THEN <<>>
        ELSE (IF i \in del THEN <<>> ELSE <<pts[i + 1]>>) \o Filter(i + 1)
  IN  Filter(0)

\* Every active projection of a point list.
ActiveProjections(pts) ==
  {getActivePoints(pts, del) : del \in SUBSET (0..(Len(pts) - 1))}

\* The point lists the table of the App can hold: the sample points, with
\* repetitions.
TableLists == UNION {[1..n -> Universe] : n \in 0..Len(Square)}

\* The point lists a mesh can have as its active projection.
MeshLists == TableLists \cup UNION {ActiveProjections(P) : P \in PickLists}

\* computeDelaunay on every point list the mesh can hold, computed once:
\* triangulate(pts) = computeDelaunay(pts).
Triangulation ==
  LET table == [P \in MeshLists |-> computeDelaunay(P)]
  IN  IF table = table THEN table ELSE table

triangulate(pts) == Triangulation[pts]

AnyDeleted(tris) == \E i \in DOMAIN tris : tris[i].deleted

\* What the onChange subscriber reads from the mesh when it is invoked.
Snapshot(pts, del, tris) ==
  [points |-> pts, deletedPoints |-> del, triangles |-> tris]

\* A TinMesh as constructed.
InitMesh ==
  /\ points = <<>>
  /\ deletedPoints = {}
  /\ triangles = <<>>
  /\ fired = 0
  /\ observed = Snapshot(<<>>, {}, <<>>)
  /\ thrown = FALSE
  /\ lastOp = "constructor"
  /\ hadDeleted = FALSE
  /\ hadDeletedPoints = FALSE
  /\ invoked = {}

\* No query made yet.
InitQuery ==
  /\ call = [fn |-> "none"]
  /\ result = {}
  /\ edgesDeleted = {}

\* No App around the mesh.
InitNoApp ==
  /\ editMode = "none"
  /\ currentMode = "none"
  /\ tablePoints = <<>>
  /\ lastEvent = "none"

Init == InitMesh /\ InitQuery /\ InitNoApp

\* The call being made, and what the mesh held when it began.
Called(op) ==
  /\ lastOp' = op
  /\ hadDeleted' = AnyDeleted(triangles)
  /\ hadDeletedPoints' = (deletedPoints # {})

\* regenerate() updating the triangle list in place, so that position k keeps
\* the deleted flag it had.
regenerateBodyKeepsFlags(pts, del) ==
  LET activePoints == getActivePoints(pts, del)
      fresh == triangulate(activePoints)
  IN  /\ triangles' =
           [k \in 1..Len(fresh) |->
              IF k <= Len(triangles)
              THEN [fresh[k] EXCEPT !.deleted = triangles[k].deleted]
              ELSE fresh[k]]
      /\ invoked' = delaunatorCalls(activePoints)
      /\ fired' = 1
      /\ observed' = Snapshot(pts, del, triangles')
      /\ thrown' = FALSE

\* regenerate() triangulating this.points instead of the active points.
regenerateBodyRawPoints(pts, del) ==
  /\ triangles' = triangulate(pts)
  /\ invoked' = delaunatorCalls(pts)
  /\ fired' = 1
  /\ observed' = Snapshot(pts, del, triangles')
  /\ thrown' = FALSE

\* The body of regenerate() on a mesh whose points and deletedPoints are pts
\* and del: the new TriangleSet is installed, then onChange is invoked.
\* updateMesh() rebuilds the display geometry only.
regenerateBody(pts, del) ==
  LET activePoints == getActivePoints(pts, del)
  IN  /\ triangles' = triangulate(activePoints)
      /\ invoked' = delaunatorCalls(activePoints)
      /\ fired' = 1
      /\ observed' = Snapshot(pts, del, triangles')
      /\ thrown' = FALSE

\* regenerate() when new Delaunator(coords) throws: computeDelaunay invokes
\* it only on 3 points or more; the exception leaves regenerate() before
\* this.triangles is assigned and before onChange.
regenerateThrows(pts, del) ==
  /\ Len(getActivePoints(pts, del)) >= 3
  /\ invoked' = delaunatorCalls(getActivePoints(pts, del))
  /\ UNCHANGED <<triangles, observed>>
  /\ fired' = 0
  /\ thrown' = TRUE
\* setPoints that leaves deletedPoints as it was.
setPointsWithoutClear(P) ==
  /\ Called("setPoints")
  /\ points' = P
  /\ deletedPoints' = deletedPoints
  /\ regenerateBody(P, deletedPoints)

\* setPoints without this.deletedPoints.clear().
setPointsKeepsDeletedPoints(P) ==
  /\ Called("setPoints")
  /\ points' = P
  /\ deletedPoints' = deletedPoints \cap 0..(Len(P) - 1)
  /\ regenerateBody(P, deletedPoints')

setPoints(P) ==
  /\ Called("setPoints")
  /\ points' = P
  /\ deletedPoints' = {}
  /\ regenerateBody(P, {})

setPointsThrows(P) ==
  /\ Called("setPoints")
  /\ points' = P
  /\ deletedPoints' = {}
  /\ regenerateThrows(P, {})

\* regenerate() returning the triangle list it already has.
regenerateCached ==
  /\ Called("regenerate")
  /\ UNCHANGED <<points, deletedPoints>>
  /\ IF triangles # <<>>
     THEN /\ UNCHANGED triangles
          /\ invoked' = {}
          /\ fired' = 1
          /\ observed' = Snapshot(points, deletedPoints, triangles)
          /\ thrown' = FALSE
     ELSE regenerateBody(points, deletedPoints)

regenerate ==
  /\ Called("regenerate")
  /\ UNCHANGED <<points, deletedPoints>>
  /\ regenerateBody(points, deletedPoints)

regenerateCallThrows ==
  /\ Called("regenerate")
  /\ UNCHANGED <<points, deletedPoints>>
  /\ regenerateThrows(points, deletedPoints)

\* The flags set one position too far.
markDeletedOffByOne(tris, triIndices) ==
  [i \in 1..Len(tris) |->
     IF i \in Range(triIndices)
     THEN [tris[i] EXCEPT !.deleted = TRUE] ELSE tris[i]]

\* triIndices.forEach(i => { this.triangles[i].deleted = true })
markDeleted(tris, triIndices) ==
  [i \in 1..Len(tris) |->
     IF (i - 1) \in Range(triIndices)
     THEN [tris[i] EXCEPT !.deleted = TRUE] ELSE tris[i]]

\* deleteEdge removing the triangles from the list instead of flagging them.
deleteEdgeRemovesTriangles(edgeKey) ==
  LET triIndices == trianglesWithEdge(triangles, edgeKey)
      kept == {i \in 1..Len(triangles) : (i - 1) \notin Range(triIndices)}
      RECURSIVE Keep(_)
      Keep(i) ==
        IF i > Len(triangles) THEN <<>>
        ELSE (IF i \in kept THEN <<triangles[i]>> ELSE <<>>) \o Keep(i + 1)
  IN  /\ Called("deleteEdge")
      /\ triangles' = Keep(1)
      /\ UNCHANGED <<points, deletedPoints>>
      /\ invoked' = {}
      /\ fired' = 1
      /\ observed' = Snapshot(points, deletedPoints, triangles')
      /\ thrown' = FALSE

\* deleteEdge returning early, without onChange, when no triangle matches.
deleteEdgeSilentWhenUnmatched(edgeKey) ==
  LET triIndices == trianglesWithEdge(triangles, edgeKey)
  IN  /\ Called("deleteEdge")
      /\ triangles' = markDeleted(triangles, triIndices)
      /\ UNCHANGED <<points, deletedPoints>>
      /\ invoked' = {}
      /\ thrown' = FALSE
      /\ IF triIndices = <<>>
         THEN fired' = 0 /\ UNCHANGED observed
         ELSE fired' = 1 /\ observed' = Snapshot(points, deletedPoints, triangles')
\* deleteEdge that keeps only the edge deletion made last.
deleteEdgeRestoresOthers(edgeKey) ==
  LET triIndices == trianglesWithEdge(triangles, edgeKey)
  IN  /\ Called("deleteEdge")
      /\ triangles' =
           [i \in 1..Len(triangles) |->
              [triangles[i] EXCEPT !.deleted = (i - 1) \in Range(triIndices)]]
      /\ UNCHANGED <<points, deletedPoints>>
      /\ invoked' = {}
      /\ fired' = 1
      /\ observed' = Snapshot(points, deletedPoints, triangles')
      /\ thrown' = FALSE

deleteEdge(edgeKey) ==
  LET triIndices == trianglesWithEdge(triangles, edgeKey)
      marked == markDeleted(triangles, triIndices)
  IN  /\ Called("deleteEdge")
      /\ triangles' = marked
      /\ UNCHANGED <<points, deletedPoints>>
      /\ invoked' = {}
      /\ fired' = 1
      /\ observed' = Snapshot(points, deletedPoints, triangles')
      /\ thrown' = FALSE

\* The active index taken for the raw index.
scanAndDeleteRawIndex(pts, del, activeIndex) == del \cup {activeIndex}

\* The scan of deletePointByActiveIndex: the first raw index i >= from that
\* is not deleted and has count = activeIndex non-deleted raw indices before
\* it is added; the loop ends without adding when there is none.
scanAndDelete(pts, del, activeIndex) ==
  LET RECURSIVE Loop(_, _)
      Loop(i, count) ==
        IF i >= Len(pts) THEN del
        ELSE IF i \notin del
             THEN IF count = activeIndex THEN del \cup {i}
                  ELSE Loop(i + 1, count + 1)
             ELSE Loop(i + 1, count)
  IN  Loop(0, 0)

\* deletePointByActiveIndex checking only activeIndex < 0.
deletePointByActiveIndexNoUpperBound(activeIndex) ==
  /\ Called("deletePointByActiveIndex")
  /\ IF activeIndex < 0
     THEN /\ UNCHANGED <<points, deletedPoints, triangles, observed>>
          /\ invoked' = {}
          /\ fired' = 0
          /\ thrown' = FALSE
     ELSE /\ points' = points
          /\ deletedPoints' = scanAndDelete(points, deletedPoints, activeIndex)
          /\ regenerateBody(points, deletedPoints')

deletePointByActiveIndex(activeIndex) ==
  LET activePoints == getActivePoints(points, deletedPoints)
  IN  /\ Called("deletePointByActiveIndex")
      /\ IF activeIndex < 0 \/ activeIndex >= Len(activePoints)
         THEN /\ UNCHANGED <<points, deletedPoints, triangles, observed>>
              /\ invoked' = {}
              /\ fired' = 0
              /\ thrown' = FALSE
         ELSE /\ points' = points
              /\ deletedPoints' = scanAndDelete(points, deletedPoints, activeIndex)
              /\ regenerateBody(points, deletedPoints')

deletePointByActiveIndexThrows(activeIndex) ==
  LET activePoints == getActivePoints(points, deletedPoints)
  IN  /\ Called("deletePointByActiveIndex")
      /\ ~(activeIndex < 0 \/ activeIndex >= Len(activePoints))
      /\ points' = points
      /\ deletedPoints' = scanAndDelete(points, deletedPoints, activeIndex)
      /\ regenerateThrows(points, deletedPoints')

\* Arguments of the calls: every active index and one below and above the
\* range; every canonical key of two indices, a key in the wrong order and
\* strings that are no key.
IndexInputs == (0 - 1)..MaxPoints

EdgeKeyInputs ==
  {getEdgeKey(a, b) : a, b \in 0..(MaxPoints - 1)} \cup {"1-0", "", "edge"}

\* The public methods of a TinMesh called on their own.
Calls(Lists) ==
  \/ \E P \in Lists : setPoints(P) /\ UNCHANGED <<queryVars, appVars>>
  \/ regenerate /\ UNCHANGED <<queryVars, appVars>>
  \/ \E edgeKey \in EdgeKeyInputs :
        deleteEdge(edgeKey) /\ UNCHANGED <<queryVars, appVars>>
  \/ \E activeIndex \in IndexInputs :
        deletePointByActiveIndex(activeIndex) /\ UNCHANGED <<queryVars, appVars>>

Next == Calls(PointLists)

Spec == Init /\ [][Next]_vars

\* The calls on prefixes of the square, with an external triangulation that
\* may throw.
NextThrows ==
  \/ Calls(SquarePrefixes)
  \/ \E P \in SquarePrefixes : setPointsThrows(P) /\ UNCHANGED <<queryVars, appVars>>
  \/ regenerateCallThrows /\ UNCHANGED <<queryVars, appVars>>
  \/ \E activeIndex \in IndexInputs :
        deletePointByActiveIndexThrows(activeIndex) /\ UNCHANGED <<queryVars, appVars>>

SpecThrows == Init /\ [][NextThrows]_vars

----------------------------------------------------------------------------
(* core/TinMesh.ts: picking                                                *)

\* Lengths are kept in half units, so that a pick at a distance of exactly
\* 1.5 can be made, and are compared by their squares: the pick radii 1.5
\* and 2 are 3 and 4 half units.
NearestPointRadius == 3

NearestEdgeRadius == 4

\* new THREE.Vector3(p.x, p.z, -p.y), in half units.
Vector3(p) == [x |-> 2 * p.x, y |-> 2 * p.z, z |-> 0 - 2 * p.y]

subVectors(a, b) == [x |-> a.x - b.x, y |-> a.y - b.y, z |-> a.z - b.z]

dot(a, b) == a.x * b.x + a.y * b.y + a.z * b.z

\* Vector3.distanceTo, squared.
distanceTo(a, b) == dot(subVectors(a, b), subVectors(a, b))

\* The scan of findNearestPoint: nearestIndex is {} while minDist is
\* Infinity.
nearestPointScan(activePoints, point) ==
  LET RECURSIVE Scan(_, _, _)
      Scan(i, minDist, nearestIndex) ==
        IF i >= Len(activePoints)
          THEN [minDist |-> minDist, nearestIndex |-> nearestIndex]
          ELSE LET dist == distanceTo(point, Vector3(activePoints[i + 1]))
               IN  IF nearestIndex = {} \/ dist < minDist
                     THEN Scan(i + 1, dist, {i})
                     ELSE Scan(i + 1, minDist, nearestIndex)
  IN  Scan(0, 0, {})

\* findNearestPoint that keeps the last of the points at the least distance.
nearestPointLastWins(pts, del, point) ==
  LET activePoints == getActivePoints(pts, del)
      least == {i \in 0..(Len(activePoints) - 1) :
                  \A j \in 0..(Len(activePoints) - 1) :
                    distanceTo(point, Vector3(activePoints[i + 1]))
                      <= distanceTo(point, Vector3(activePoints[j + 1]))}
  IN  {i \in least :
         /\ \A j \in least : j <= i
         /\ distanceTo(point, Vector3(activePoints[i + 1]))
              < NearestPointRadius * NearestPointRadius}

\* What findNearestPoint(point) returns on the mesh (pts, del): {i} for the
\* active index i, {} for null.
nearestPoint(pts, del, point) ==
  LET scan == nearestPointScan(getActivePoints(pts, del), point)
  IN  IF /\ scan.nearestIndex # {}
         /\ scan.minDist < NearestPointRadius * NearestPointRadius
        THEN scan.nearestIndex
        ELSE {}

findNearestPoint(point) ==
  /\ call' = [fn |-> "findNearestPoint", point |-> point]
  /\ result' = nearestPoint(points, deletedPoints, point)
  /\ UNCHANGED <<meshVars, edgesDeleted, appVars>>

\* The squared distance a / b with b > 0, and the order of two of them.
Fraction(a, b) == [num |-> a, den |-> b]

Less(d, e) == d.num * e.den < e.num * d.den

\* distanceToLineSegment, squared: t is clamped to [0, 1], and between the
\* two the squared distance is |ap|^2 - (ap . ab)^2 / |ab|^2.
distanceToLineSegment(p, a, b) ==
  LET ab == subVectors(b, a)
      abDotAb == dot(ab, ab)
      apDotAb == dot(subVectors(p, a), ab)
  IN  IF abDotAb = 0 THEN Fraction(distanceTo(p, a), 1)
      ELSE IF apDotAb <= 0 THEN Fraction(distanceTo(p, a), 1)
      ELSE IF apDotAb >= abDotAb THEN Fraction(distanceTo(p, b), 1)
      ELSE Fraction(distanceTo(p, a) * abDotAb - apDotAb * apDotAb, abDotAb)

\* The edges findNearestEdge goes through, in its order: the three edges of
\* each triangle that is not deleted.
activeEdges(tris) ==
  LET RECURSIVE Edges(_)
      Edges(i) ==
        IF i > Len(tris) THEN <<>>
        ELSE (IF tris[i].deleted THEN <<>> ELSE getTriangleEdges(tris[i]))
               \o Edges(i + 1)
  IN  Edges(1)

\* The scan of findNearestEdge: nearestEdge is {} while minDist is Infinity.
nearestEdgeScan(activePoints, edges, point) ==
  LET RECURSIVE Scan(_, _, _, _)
      Scan(i, edgesSeen, minDist, nearestEdge) ==
        IF i > Len(edges)
          THEN [minDist |-> minDist, nearestEdge |-> nearestEdge]
        ELSE IF edges[i].key \in edgesSeen
          THEN Scan(i + 1, edgesSeen, minDist, nearestEdge)
        ELSE LET va == Vector3(activePoints[edges[i].a + 1])
                 vb == Vector3(activePoints[edges[i].b + 1])
                 dist == distanceToLineSegment(point, va, vb)
                 seen == edgesSeen \cup {edges[i].key}
             IN  IF nearestEdge = {} \/ Less(dist, minDist)
                   THEN Scan(i + 1, seen, dist, {edges[i].key})
                   ELSE Scan(i + 1, seen, minDist, nearestEdge)
  IN  Scan(1, {}, Fraction(0, 1), {})

\* findNearestEdge that goes through the edges of every triangle, deleted or
\* not.
nearestEdgeOfAllTriangles(pts, del, tris, point) ==
  LET all == [i \in 1..Len(tris) |-> [tris[i] EXCEPT !.deleted = FALSE]]
      scan == nearestEdgeScan(getActivePoints(pts, del), activeEdges(all), point)
  IN  IF /\ scan.nearestEdge # {}
         /\ Less(scan.minDist, Fraction(NearestEdgeRadius * NearestEdgeRadius, 1))
        THEN scan.nearestEdge
        ELSE {}

\* What findNearestEdge(point) returns on the mesh (pts, del, tris): {key}
\* for an edge key, {} for null.
nearestEdge(pts, del, tris, point) ==
  LET scan == nearestEdgeScan(getActivePoints(pts, del), activeEdges(tris), point)
  IN  IF /\ scan.nearestEdge # {}
         /\ Less(scan.minDist, Fraction(NearestEdgeRadius * NearestEdgeRadius, 1))
        THEN scan.nearestEdge
        ELSE {}

findNearestEdge(point) ==
  /\ call' = [fn |-> "findNearestEdge", point |-> point]
  /\ result' = nearestEdge(points, deletedPoints, triangles, point)
  /\ UNCHANGED <<meshVars, edgesDeleted, appVars>>

\* The points picked at, in half units of the scene: on a point, midway
\* between two, at 1.5 from one, under a raised one, inside the squares, on
\* an edge, and far from everything.
Picks ==
  { [x |-> 0, y |-> 0, z |-> 0],      [x |-> 2, y |-> 0, z |-> 0],
    [x |-> 0 - 3, y |-> 0, z |-> 0],  [x |-> 4, y |-> 0, z |-> 0 - 4],
    [x |-> 2, y |-> 0, z |-> 0 - 2],  [x |-> 10, y |-> 0, z |-> 0 - 5],
    [x |-> 6, y |-> 0, z |-> 0 - 5],  [x |-> 30, y |-> 0, z |-> 30] }

\* The keys handed to deleteEdge on a picked mesh: a side, the diagonals and
\* a string that is no key.
PickKeys == {"0-1", "0-3", "1-2", "edge"}

\* The methods of a TinMesh called on their own, and the two pick queries.
NoQuery ==
  /\ call' = [fn |-> "none"]
  /\ result' = {}
  /\ UNCHANGED appVars

NextPick ==
  \/ \E P \in PickLists : setPoints(P) /\ edgesDeleted' = {} /\ NoQuery
  \/ regenerate /\ edgesDeleted' = {} /\ NoQuery
  \/ \E edgeKey \in PickKeys :
       /\ deleteEdge(edgeKey)
       /\ edgesDeleted' = edgesDeleted \cup {edgeKey}
       /\ NoQuery
  \/ \E activeIndex \in IndexInputs :
       /\ deletePointByActiveIndex(activeIndex)
       /\ edgesDeleted' = IF fired' = 1 THEN {} ELSE edgesDeleted
       /\ NoQuery
  \/ \E point \in Picks : findNearestPoint(point)
  \/ \E point \in Picks : findNearestEdge(point)

SpecPick == Init /\ [][NextPick]_vars

----------------------------------------------------------------------------
(* utils/geometry: the functions called on their own                       *)

\* Largest triangle list handed to the topology queries.
MaxTriangles == 3

\* The triangles of the lists: two that share an edge, one of them also
\* wound the other way, each deleted or not.
SampleTriangles ==
  {[indices |-> t, deleted |-> d] :
     t \in {<<0, 1, 3>>, <<0, 3, 2>>, <<3, 1, 0>>}, d \in BOOLEAN}

TriangleLists == UNION {[1..n -> SampleTriangles] : n \in 0..MaxTriangles}

\* The indices handed to getEdgeKey: of one and of two digits.
KeyIndices == {0, 2, 11, 12}

\* The arguments of the topology queries: an index no triangle uses next to
\* those in use, a key of no triangle and a string that is no key next to
\* the keys in use.
QueryIndices == (0 - 1)..4

QueryKeys == {"0-1", "0-3", "1-3", "2-3", "0-2", "1-2", "3-0", "edge"}

InitGeometry ==
  /\ InitMesh
  /\ call \in {[fn |-> "none", triangles |-> tris] : tris \in TriangleLists}
  /\ result = {}
  /\ edgesDeleted = {}
  /\ InitNoApp

callTrianglesUsingPoint(pointIndex) ==
  /\ call' = [fn |-> "trianglesUsingPoint", triangles |-> call.triangles,
              pointIndex |-> pointIndex]
  /\ result' = trianglesUsingPoint(call.triangles, pointIndex)
  /\ UNCHANGED <<meshVars, edgesDeleted, appVars>>

callTrianglesWithEdge(edgeKey) ==
  /\ call' = [fn |-> "trianglesWithEdge", triangles |-> call.triangles,
              edgeKey |-> edgeKey]
  /\ result' = trianglesWithEdge(call.triangles, edgeKey)
  /\ UNCHANGED <<meshVars, edgesDeleted, appVars>>

callGetEdgeKey(a, b) ==
  /\ call' = [fn |-> "getEdgeKey", triangles |-> call.triangles,
              a |-> a, b |-> b]
  /\ result' = getEdgeKey(a, b)
  /\ UNCHANGED <<meshVars, edgesDeleted, appVars>>

callGetTriangleEdges(tri) ==
  /\ call' = [fn |-> "getTriangleEdges", triangles |-> call.triangles,
              tri |-> tri]
  /\ result' = getTriangleEdges(tri)
  /\ UNCHANGED <<meshVars, edgesDeleted, appVars>>

NextGeometry ==
  \/ \E pointIndex \in QueryIndices : callTrianglesUsingPoint(pointIndex)
  \/ \E edgeKey \in QueryKeys : callTrianglesWithEdge(edgeKey)
  \/ \E a, b \in KeyIndices : callGetEdgeKey(a, b)
  \/ \E tri \in SampleTriangles : callGetTriangleEdges(tri)

SpecGeometry == InitGeometry /\ [][NextGeometry]_vars

----------------------------------------------------------------------------
(* main.ts, components/PointTable.ts, components/Toolbar.ts                *)

\* The points the App starts with: the square stands for the ten of the
\* code.
defaultPoints == Square

\* What is typed into the cells of a row, and parseFloat(target.value) || 0
\* of it.
CellInputs ==
  { [field |-> "x", value |-> "5"],   [field |-> "x", value |-> ""],
    [field |-> "y", value |-> "5"],   [field |-> "y", value |-> "abc"],
    [field |-> "z", value |-> "0"] }

parseFloatOrZero(value) ==
  CASE value = "0" -> 0
    [] value = "5" -> 5
    [] OTHER -> 0

\* this.points.splice(index, 1) on the row with 0-based index.
splice(pts, index) ==
  [k \in 1..(Len(pts) - 1) |-> IF k <= index THEN pts[k] ELSE pts[k + 1]]

\* The ground points the mouse is over, in half units, and {} where the ray
\* misses the ground plane.
GroundPicks ==
  { [x |-> 0, y |-> 0, z |-> 0],      [x |-> 10, y |-> 0, z |-> 0 - 10],
    [x |-> 6, y |-> 0, z |-> 0 - 5],  [x |-> 30, y |-> 0, z |-> 30] }

Intersections == {{point} : point \in GroundPicks} \cup {{}}

\* The App as constructed: table and mesh hold the default points.
InitApp ==
  /\ points = defaultPoints
  /\ deletedPoints = {}
  /\ triangles = triangulate(defaultPoints)
  /\ fired = 1
  /\ observed = Snapshot(defaultPoints, {}, triangles)
  /\ thrown = FALSE
  /\ lastOp = "setPoints"
  /\ hadDeleted = FALSE
  /\ hadDeletedPoints = FALSE
  /\ invoked = delaunatorCalls(defaultPoints)
  /\ InitQuery
  /\ editMode = "none"
  /\ currentMode = "none"
  /\ tablePoints = defaultPoints
  /\ lastEvent = "constructor"

\* No method of the mesh is called.
MeshUntouched == UNCHANGED <<meshVars, edgesDeleted>>

NoPick == call' = [fn |-> "none"] /\ result' = {}

\* Toolbar's mode button without the onModeChange callback.
clickModeButtonUnheard(mode) ==
  /\ lastEvent' = "mode"
  /\ currentMode' = mode
  /\ NoPick
  /\ MeshUntouched
  /\ UNCHANGED <<editMode, tablePoints>>

\* Toolbar: click on a mode button, then App.setEditMode.
clickModeButton(mode) ==
  /\ lastEvent' = "mode"
  /\ currentMode' = mode
  /\ editMode' = mode
  /\ NoPick
  /\ MeshUntouched
  /\ UNCHANGED tablePoints
\* App.regenerateTin that hands the mesh its own raw point list.
clickRegenerateRawPoints ==
  /\ lastEvent' = "regenerate"
  /\ setPoints(points)
  /\ NoPick
  /\ UNCHANGED <<edgesDeleted, editMode, currentMode, tablePoints>>

\* Toolbar: click on Regenerate, then App.regenerateTin.
clickRegenerate ==
  /\ lastEvent' = "regenerate"
  /\ setPoints(tablePoints)
  /\ NoPick
  /\ UNCHANGED <<edgesDeleted, editMode, currentMode, tablePoints>>

\* PointTable: input in a coordinate cell of a row, then App.onPointsChange.
inputCell(index, field, value) ==
  /\ index \in 0..(Len(tablePoints) - 1)
  /\ lastEvent' = "input"
  /\ tablePoints' =
       [tablePoints EXCEPT ![index + 1][field] = parseFloatOrZero(value)]
  /\ setPoints(tablePoints')
  /\ NoPick
  /\ UNCHANGED <<edgesDeleted, editMode, currentMode>>

\* PointTable: click on the delete button of a row.
clickDeleteRow(index) ==
  /\ index \in 0..(Len(tablePoints) - 1)
  /\ lastEvent' = "deleteRow"
  /\ tablePoints' = splice(tablePoints, index)
  /\ setPoints(tablePoints')
  /\ NoPick
  /\ UNCHANGED <<edgesDeleted, editMode, currentMode>>

\* PointTable: click on Add Point, while the table is shorter than it was at
\* the start.
clickAddPoint ==
  /\ Len(tablePoints) < Len(defaultPoints)
  /\ lastEvent' = "addPoint"
  /\ tablePoints' = Append(tablePoints, [x |-> 0, y |-> 0, z |-> 0])
  /\ setPoints(tablePoints')
  /\ NoPick
  /\ UNCHANGED <<edgesDeleted, editMode, currentMode>>

\* The viewport: mousemove. It picks only to move the highlights, which are
\* no part of the state.
onMouseMove(intersectPoint) ==
  /\ lastEvent' = "mousemove"
  /\ NoPick
  /\ MeshUntouched
  /\ UNCHANGED <<editMode, currentMode, tablePoints>>

\* The edge branch of onClick that takes the nearest edge of any triangle,
\* deleted or not.
clickEdgeOfAnyTriangle(point) ==
  /\ call' = [fn |-> "findNearestEdge", point |-> point]
  /\ result' = nearestEdgeOfAllTriangles(points, deletedPoints, triangles, point)
  /\ IF result' = {}
       THEN UNCHANGED meshVars
       ELSE \E edgeKey \in result' : deleteEdge(edgeKey)
  /\ UNCHANGED tablePoints

\* onClick in mode 'edge' with a ground point.
clickEdge(point) ==
  /\ call' = [fn |-> "findNearestEdge", point |-> point]
  /\ result' = nearestEdge(points, deletedPoints, triangles, point)
  /\ IF result' = {}
       THEN UNCHANGED meshVars
       ELSE \E edgeKey \in result' : deleteEdge(edgeKey)
  /\ UNCHANGED tablePoints

\* The point branch of onClick without pointTable.setPoints.
clickPointKeepsTable(point) ==
  /\ call' = [fn |-> "findNearestPoint", point |-> point]
  /\ result' = nearestPoint(points, deletedPoints, point)
  /\ IF result' = {}
       THEN UNCHANGED meshVars
       ELSE \E pointIndex \in result' : deletePointByActiveIndex(pointIndex)
  /\ UNCHANGED tablePoints

\* onClick in mode 'point' with a ground point.
clickPoint(point) ==
  /\ call' = [fn |-> "findNearestPoint", point |-> point]
  /\ result' = nearestPoint(points, deletedPoints, point)
  /\ IF result' = {}
       THEN UNCHANGED <<meshVars, tablePoints>>
       ELSE /\ \E pointIndex \in result' : deletePointByActiveIndex(pointIndex)
            /\ tablePoints' = getActivePoints(points', deletedPoints')

\* The viewport: click.
onClick(intersectPoint) ==
  /\ lastEvent' = "click"
  /\ IF editMode = "none" \/ intersectPoint = {}
       THEN NoPick /\ UNCHANGED <<meshVars, tablePoints>>
       ELSE \E point \in intersectPoint :
              IF editMode = "edge" THEN clickEdge(point) ELSE clickPoint(point)
  /\ UNCHANGED <<edgesDeleted, editMode, currentMode>>

EditModes == {"none", "edge", "point"}

\* The events of the user interface.
NextApp ==
  \/ \E mode \in EditModes : clickModeButton(mode)
  \/ clickRegenerate
  \/ \E index \in 0..(Len(defaultPoints) - 1), cell \in CellInputs :
       inputCell(index, cell.field, cell.value)
  \/ \E index \in 0..(Len(defaultPoints) - 1) : clickDeleteRow(index)
  \/ clickAddPoint
  \/ \E intersectPoint \in Intersections : onMouseMove(intersectPoint)
  \/ \E intersectPoint \in Intersections : onClick(intersectPoint)

SpecApp == InitApp /\ [][NextApp]_vars

----------------------------------------------------------------------------
(* Properties                                                              *)

ActiveProjection == getActivePoints(points, deletedPoints)

ValidIndex(i) == 0 <= i /\ i < Len(ActiveProjection)

NoneDeleted(tris) == \A k \in DOMAIN tris : ~tris[k].deleted

\* The i-th raw index, in ascending order, that is not in del.
NthActiveRaw(pts, del, i) ==
  CHOOSE r \in 0..(Len(pts) - 1) :
    r \notin del /\ Cardinality({q \in 0..(r - 1) : q \notin del}) = i

\* s without its element at 0-based position i.
RemoveAt(s, i) ==
  [k \in 1..(Len(s) - 1) |-> IF k <= i THEN s[k] ELSE s[k + 1]]

\* C1: a setPoints call, and a deletePointByActiveIndex call with a valid
\* index, leave every triangle of the TriangleSet with deleted = false,
\* whatever flags deleteEdge had set before.
C1_EdgeDeletionsEphemeral ==
  [][ ( \/ \E P \in PointLists : setPoints(P)
        \/ \E i \in IndexInputs : ValidIndex(i) /\ deletePointByActiveIndex(i) )
      => NoneDeleted(triangles') ]_vars

\* A valid point deletion has just retriangulated a mesh that had flagged
\* triangles, and the new mesh has triangles.
C1_Witness ==
  /\ lastOp = "deletePointByActiveIndex"
  /\ fired = 1
  /\ hadDeleted
  /\ triangles # <<>>

\* C2: deletePointByActiveIndex(i) with a valid i adds to DeletedPointSet
\* exactly the i-th raw index in ascending order that was not in it, leaves
\* RawPointList unchanged, and the new active projection is the old one
\* without its element at position i; on the square, index 1 removes raw
\* index 1 and leaves [(0,0,0), (0,5,0), (5,5,0)].
C2_DeletePointMapsActiveToRaw ==
  [][ \A i \in IndexInputs :
        (ValidIndex(i) /\ deletePointByActiveIndex(i)) =>
          LET raw == NthActiveRaw(points, deletedPoints, i)
          IN  /\ raw \notin deletedPoints
              /\ deletedPoints' = deletedPoints \cup {raw}
              /\ points' = points
              /\ getActivePoints(points', deletedPoints') = RemoveAt(ActiveProjection, i)
              /\ Len(getActivePoints(points', deletedPoints')) = Len(ActiveProjection) - 1
              /\ (points = Square /\ deletedPoints = {} /\ i = 1) =>
                    /\ deletedPoints' = {1}
                    /\ getActivePoints(points', deletedPoints')
                         = <<Square[1], Square[3], Square[4]>> ]_vars

\* A point deletion on the square, begun with a point already soft-deleted,
\* has left raw indices 0 and 1 deleted.
C2_Witness ==
  /\ lastOp = "deletePointByActiveIndex"
  /\ fired = 1
  /\ hadDeletedPoints
  /\ points = Square
  /\ deletedPoints = {0, 1}
  /\ ActiveProjection = <<Square[3], Square[4]>>

\* C3: deletePointByActiveIndex(i) with i < 0 or i >= the active count
\* changes nothing: RawPointList, DeletedPointSet and TriangleSet with its
\* deleted flags stay, nothing is raised, nothing is retriangulated or
\* notified.
C3_OutOfRangeIsNoOp ==
  [][ \A i \in IndexInputs :
        (~ValidIndex(i) /\ deletePointByActiveIndex(i)) =>
          /\ UNCHANGED <<points, deletedPoints, triangles>>
          /\ ~thrown'
          /\ fired' = 0 ]_vars

\* An out-of-range point deletion has just returned on a mesh that holds
\* flagged triangles.
C3_Witness ==
  /\ lastOp = "deletePointByActiveIndex"
  /\ fired = 0
  /\ hadDeleted
  /\ AnyDeleted(triangles)

\* C4: a call in which the external triangulation fails leaves RawPointList,
\* DeletedPointSet and TriangleSet as they were before the call.
C4_FailsAtomically ==
  [][ thrown' => UNCHANGED <<points, deletedPoints, triangles>> ]_vars

\* C5: after deleteEdge(k) every triangle that trianglesWithEdge reported
\* before the call is flagged deleted, and every other triangle keeps its
\* flag.
C5_DeleteEdgeFlagsExactlyReported ==
  [][ \A k \in EdgeKeyInputs :
        deleteEdge(k) =>
          LET reported == Range(trianglesWithEdge(triangles, k))
          IN  /\ Len(triangles') = Len(triangles)
              /\ \A pos \in 0..(Len(triangles) - 1) :
                    triangles'[pos + 1].deleted =
                      IF pos \in reported THEN TRUE ELSE triangles[pos + 1].deleted ]_vars

\* deleteEdge has just flagged one triangle of a mesh and left another
\* triangle unflagged.
C5_Witness ==
  /\ lastOp = "deleteEdge"
  /\ ~hadDeleted
  /\ \E a, b \in DOMAIN triangles : triangles[a].deleted /\ ~triangles[b].deleted

\* C6: deleteEdge(k), for any key, leaves RawPointList, DeletedPointSet, the
\* active projection, the number and order of the triangles and their vertex
\* indices unchanged.
C6_DeleteEdgeFrame ==
  [][ \A k \in EdgeKeyInputs :
        deleteEdge(k) =>
          /\ points' = points
          /\ deletedPoints' = deletedPoints
          /\ getActivePoints(points', deletedPoints') = ActiveProjection
          /\ Len(triangles') = Len(triangles)
          /\ \A i \in DOMAIN triangles : triangles'[i].indices = triangles[i].indices ]_vars

\* deleteEdge has just flagged the last unflagged triangles of the square:
\* no point has a non-deleted triangle and all four points are still active.
C6_Witness ==
  /\ lastOp = "deleteEdge"
  /\ Len(triangles) = 2
  /\ \A i \in DOMAIN triangles : triangles[i].deleted
  /\ Len(ActiveProjection) = 4

\* C7: every triangle of the TriangleSet has three pairwise distinct vertex
\* indices, each in [0, |ActiveProjection|).
C7_TriangleIndicesValid ==
  \A k \in DOMAIN triangles :
    LET t == triangles[k].indices
    IN  /\ t[1] # t[2] /\ t[2] # t[3] /\ t[1] # t[3]
        /\ \A v \in 1..3 : 0 <= t[v] /\ t[v] < Len(ActiveProjection)

\* A mesh with a triangle over an active projection shorter than the raw
\* point list.
C7_Witness ==
  /\ triangles # <<>>
  /\ deletedPoints # {}
  /\ Len(ActiveProjection) < Len(points)

\* C8: setPoints, deleteEdge (also with a key that matches nothing) and
\* deletePointByActiveIndex with a valid index invoke onChange exactly once,
\* when RawPointList, DeletedPointSet and TriangleSet hold their final
\* values; an out-of-range deletePointByActiveIndex invokes it not at all.
C8_NotifiesOnceWhenConsistent ==
  [][ /\ ( \/ \E P \in PointLists : setPoints(P)
           \/ \E k \in EdgeKeyInputs : deleteEdge(k)
           \/ \E i \in IndexInputs : ValidIndex(i) /\ deletePointByActiveIndex(i) )
         => /\ fired' = 1
            /\ observed' = Snapshot(points', deletedPoints', triangles')
      /\ (\E i \in IndexInputs : ~ValidIndex(i) /\ deletePointByActiveIndex(i))
         => /\ fired' = 0
            /\ observed' = observed ]_vars

\* deleteEdge has just returned without having matched a triangle of a mesh
\* that has triangles, and onChange was invoked.
C8_Witness ==
  /\ lastOp = "deleteEdge"
  /\ fired = 1
  /\ triangles # <<>>
  /\ NoneDeleted(triangles)
  /\ observed = Snapshot(points, deletedPoints, triangles)

\* C9: after setPoints(P), from any state, RawPointList = P, DeletedPointSet
\* is empty and TriangleSet = triangulate(P) with every flag false; so
\* setPoints(P) right after setPoints(P) reproduces the TriangleSet.
C9_SetPointsResets ==
  [][ \A P \in PointLists :
        setPoints(P) =>
          /\ points' = P
          /\ deletedPoints' = {}
          /\ triangles' = triangulate(P)
          /\ NoneDeleted(triangles')
          /\ (lastOp = "setPoints" /\ points = P) => triangles' = triangles ]_vars

\* setPoints has just replaced a mesh that had soft-deleted points and
\* flagged triangles by one with triangles.
C9_Witness ==
  /\ lastOp = "setPoints"
  /\ hadDeleted
  /\ hadDeletedPoints
  /\ triangles # <<>>

\* C10: regenerate() leaves RawPointList and DeletedPointSet unchanged and
\* installs triangulate(ActiveProjection) as the TriangleSet; a second
\* regenerate() right after it yields the same TriangleSet.
C10_RegenerateIsPure ==
  [][ regenerate =>
        /\ points' = points
        /\ deletedPoints' = deletedPoints
        /\ triangles' = triangulate(ActiveProjection)
        /\ (lastOp = "regenerate") => triangles' = triangles ]_vars

\* regenerate() has just rebuilt a mesh that had a soft-deleted point and
\* flagged triangles.
C10_Witness ==
  /\ lastOp = "regenerate"
  /\ hadDeleted
  /\ hadDeletedPoints
  /\ triangles # <<>>

\* C11: in every reachable state, even where the triangulator may throw, an
\* active projection of fewer than 3 points goes with an empty TriangleSet
\* and with a last call that did not throw, however few points successive
\* deletions have left; and new Delaunator is never given fewer than 3
\* points.
C11_FewPointsNoTriangles ==
  /\ Len(ActiveProjection) < 3 => triangles = <<>> /\ ~thrown
  /\ \A n \in invoked : n >= 3

\* deletePointByActiveIndex has just taken the active projection of a mesh
\* that already had a soft-deleted point below 3 points.
C11_Witness ==
  /\ lastOp = "deletePointByActiveIndex"
  /\ fired = 1
  /\ hadDeletedPoints
  /\ Len(points) = MaxPoints
  /\ Len(ActiveProjection) = 2
  /\ triangles = <<>>
  /\ invoked = {}

\* C12: every member of DeletedPointSet is a raw index of RawPointList, and
\* a deletePointByActiveIndex with an active index in range adds exactly one
\* raw index that was not a member before.
C12_DeletedPointsValidAndFresh ==
  /\ \A i \in deletedPoints : ValidIndex(i)
  /\ [][ /\ \A i \in deletedPoints' : i \in 0..(Len(points') - 1)
         /\ \A activeIndex \in 0..(Len(ActiveProjection) - 1) :
              deletePointByActiveIndex(activeIndex) =>
                \E raw \in 0..(Len(points) - 1) :
                  /\ raw \notin deletedPoints
                  /\ deletedPoints' = deletedPoints \cup {raw} ]_vars

\* deletePointByActiveIndex has just soft-deleted a second point, and
\* setPoints has replaced a list with soft-deleted points by a shorter one.
C12_Witness ==
  \/ /\ lastOp = "deletePointByActiveIndex"
     /\ fired = 1
     /\ hadDeletedPoints
     /\ Cardinality(deletedPoints) >= 2
  \/ /\ lastOp = "setPoints"
     /\ hadDeletedPoints
     /\ Len(points) < MaxPoints

\* The squared distance, in half units, from a pick to the active point i.
PickDistance(point, i) == distanceTo(point, Vector3(ActiveProjection[i + 1]))

\* The active indices at the least distance from a pick.
Nearest(point) ==
  {i \in 0..(Len(ActiveProjection) - 1) :
     \A j \in 0..(Len(ActiveProjection) - 1) :
       PickDistance(point, i) <= PickDistance(point, j)}

\* The least of a non-empty set of indices.
Lowest(S) == CHOOSE i \in S : \A j \in S : i <= j

\* C13 as stated: findNearestPoint returns null when the radius 1.5 is
\* smaller than the distance to every active point, and in every other case
\* the lowest active index at the least distance.
C13_NoneOnlyBeyondRadius ==
  [][ \A point \in Picks :
        findNearestPoint(point) =>
          IF \A i \in 0..(Len(ActiveProjection) - 1) :
               NearestPointRadius * NearestPointRadius < PickDistance(point, i)
            THEN result' = {}
            ELSE result' = {Lowest(Nearest(point))} ]_vars

\* C13, amended: findNearestPoint returns null when no active point is
\* nearer than the radius 1.5 (none at all, or each at 1.5 or more), and
\* otherwise the lowest active index at the least distance, which is an index
\* into the active projection.
C13_NearestPointWithinRadius ==
  [][ \A point \in Picks :
        findNearestPoint(point) =>
          IF \A i \in 0..(Len(ActiveProjection) - 1) :
               NearestPointRadius * NearestPointRadius <= PickDistance(point, i)
            THEN result' = {}
            ELSE /\ result' = {Lowest(Nearest(point))}
                 /\ \A i \in result' : ValidIndex(i) ]_vars

\* findNearestPoint has just returned the lower of two active indices at the
\* same distance, on a mesh with a soft-deleted point before them.
C13_Witness ==
  /\ call.fn = "findNearestPoint"
  /\ 0 \in deletedPoints
  /\ Cardinality(Nearest(call.point)) = 2
  /\ result = {Lowest(Nearest(call.point))}

\* The keys of the edges of the triangles that are not deleted.
LiveEdgeKeys ==
  {getTriangleEdges(triangles[i])[e].key :
     i \in {k \in DOMAIN triangles : ~triangles[k].deleted}, e \in 1..3}

\* C14: findNearestEdge returns null or the key of an edge of a triangle that
\* is not deleted now (so null when there is none), and never a key that
\* deleteEdge was given since the triangles were last rebuilt.
C14_NearestEdgeIsLive ==
  [][ \A point \in Picks :
        findNearestEdge(point) =>
          /\ result' \subseteq LiveEdgeKeys
          /\ result' \cap edgesDeleted = {} ]_vars

\* findNearestEdge has just returned a key on a mesh where deleteEdge had
\* deleted the edge that is nearest the pick among those of all triangles.
C14_Witness ==
  /\ call.fn = "findNearestEdge"
  /\ result # {}
  /\ result \subseteq LiveEdgeKeys
  /\ nearestEdgeOfAllTriangles(points, deletedPoints, triangles, call.point)
       \cap edgesDeleted # {}

\* Twice the signed area of the triangle tri over the points pts.
DoubleArea(pts, tri) ==
  LET a == pts[tri.indices[1] + 1]
      b == pts[tri.indices[2] + 1]
      c == pts[tri.indices[3] + 1]
  IN  (b.x - a.x) * (c.y - a.y) - (b.y - a.y) * (c.x - a.x)

\* The edge keys of a triangle.
KeysOf(tri) == {getTriangleEdges(tri)[e].key : e \in 1..3}

\* C15: setPoints on the square yields exactly 2 triangles, of different
\* point sets, neither degenerate, that together use all 4 points; and on
\* that mesh deleteEdge with the key the two share flags exactly both, so
\* that no triangle is left not deleted while all 4 points stay active.
C15_SquareScenario ==
  [][ /\ setPoints(Square) =>
           /\ Len(triangles') = 2
           /\ Range(triangles'[1].indices) # Range(triangles'[2].indices)
           /\ \A i \in 1..2 : DoubleArea(Square, triangles'[i]) # 0
           /\ UNION {Range(triangles'[i].indices) : i \in 1..2} = 0..3
           /\ Cardinality(KeysOf(triangles'[1]) \cap KeysOf(triangles'[2])) = 1
      /\ \A edgeKey \in EdgeKeyInputs :
           ( /\ points = Square
             /\ deletedPoints = {}
             /\ NoneDeleted(triangles)
             /\ edgeKey \in KeysOf(triangles[1]) \cap KeysOf(triangles[2])
             /\ deleteEdge(edgeKey) ) =>
               /\ Len(triangles') = 2
               /\ \A i \in 1..2 : triangles'[i].deleted
               /\ trianglesWithEdge(triangles, edgeKey) = <<0, 1>>
               /\ Len(getActivePoints(points', deletedPoints')) = 4 ]_vars

\* deleteEdge has just flagged both triangles of the untouched square.
C15_Witness ==
  /\ lastOp = "deleteEdge"
  /\ ~hadDeleted
  /\ points = Square
  /\ deletedPoints = {}
  /\ Len(triangles) = 2
  /\ \A i \in 1..2 : triangles[i].deleted

\* s is strictly ascending.
Ascending(s) == \A i, j \in DOMAIN s : i < j => s[i] < s[j]

\* C16: trianglesUsingPoint and trianglesWithEdge return, in ascending order
\* and each once, exactly the positions of the triangles that are not deleted
\* and use the point index, or have an edge with the key; so a deleted
\* triangle is never reported and the list is empty when nothing matches;
\* and the triangle list is left as it was.
C16_TopologyQueriesExact ==
  [][ LET tris == call.triangles
      IN  /\ \A pointIndex \in QueryIndices :
               callTrianglesUsingPoint(pointIndex) =>
                 /\ Ascending(result')
                 /\ Range(result') =
                      {i - 1 : i \in {k \in DOMAIN tris :
                         ~tris[k].deleted /\ pointIndex \in Range(tris[k].indices)}}
                 /\ call'.triangles = tris
          /\ \A edgeKey \in QueryKeys :
               callTrianglesWithEdge(edgeKey) =>
                 /\ Ascending(result')
                 /\ Range(result') =
                      {i - 1 : i \in {k \in DOMAIN tris :
                         ~tris[k].deleted /\ edgeKey \in KeysOf(tris[k])}}
                 /\ call'.triangles = tris ]_vars

\* trianglesWithEdge has just reported two of three triangles that have an
\* edge with the key, the third being deleted.
C16_Witness ==
  /\ call.fn = "trianglesWithEdge"
  /\ Len(call.triangles) = MaxTriangles
  /\ \A k \in DOMAIN call.triangles : call.edgeKey \in KeysOf(call.triangles[k])
  /\ call.triangles[2].deleted
  /\ result = <<0, 2>>

\* C17: getEdgeKey(a, b) = getEdgeKey(b, a) for all indices a, b >= 0, two
\* pairs of indices have the same key only if they are the same unordered
\* pair, and getTriangleEdges yields the edges i0-i1, i1-i2, i2-i0, each with
\* the key of its two end points in either order.
C17_EdgeKeyCanonical ==
  [][ /\ \A a, b \in KeyIndices :
           callGetEdgeKey(a, b) =>
             /\ result' = getEdgeKey(b, a)
             /\ \A c, d \in KeyIndices :
                  getEdgeKey(c, d) = result' => {c, d} = {a, b}
      /\ \A tri \in SampleTriangles :
           callGetTriangleEdges(tri) =>
             /\ Len(result') = 3
             /\ \A e \in 1..3 :
                  /\ result'[e].a = tri.indices[e]
                  /\ result'[e].b = tri.indices[(e % 3) + 1]
                  /\ result'[e].key = getEdgeKey(result'[e].a, result'[e].b)
                  /\ result'[e].key = getEdgeKey(result'[e].b, result'[e].a) ]_vars

\* getEdgeKey has just been given two indices of two digits, the larger
\* first.
C17_Witness ==
  /\ call.fn = "getEdgeKey"
  /\ call.a = 12
  /\ call.b = 11
  /\ result = "11-12"

\* C18: a click in mode 'edge' or 'point' picks on the mesh as it is at the
\* click; the key it passes to deleteEdge is a key of a triangle that is not
\* deleted and the index it passes to deletePointByActiveIndex is within the
\* active projection, so that the deletion flags a triangle, or soft-deletes
\* a point; and without a pick result no method of the mesh is called.
C18_ClickDeletesWhatItPicked ==
  [][ \A point \in GroundPicks :
        onClick({point}) =>
          /\ editMode = "edge" =>
               /\ result' = nearestEdge(points, deletedPoints, triangles, point)
               /\ \A edgeKey \in result' :
                    /\ deleteEdge(edgeKey)
                    /\ trianglesWithEdge(triangles, edgeKey) # <<>>
                    /\ \E i \in DOMAIN triangles :
                         ~triangles[i].deleted /\ triangles'[i].deleted
          /\ editMode = "point" =>
               /\ result' = nearestPoint(points, deletedPoints, point)
               /\ \A pointIndex \in result' :
                    /\ deletePointByActiveIndex(pointIndex)
                    /\ ValidIndex(pointIndex)
                    /\ Cardinality(deletedPoints') = Cardinality(deletedPoints) + 1
          /\ result' = {} => UNCHANGED meshVars ]_vars

\* A click in mode 'edge' has just deleted an edge of a mesh that already
\* had deleted triangles.
C18_Witness ==
  /\ lastEvent = "click"
  /\ editMode = "edge"
  /\ call.fn = "findNearestEdge"
  /\ result # {}
  /\ lastOp = "deleteEdge"
  /\ hadDeleted

\* C19: after the start of the App and after every event of the user
\* interface, PointTable.points is, element for element, the active
\* projection of the mesh.
C19_TableIsActiveProjection == tablePoints = ActiveProjection

\* A click in mode 'point' has just soft-deleted a second point, leaving the
\* table two rows shorter than the raw point list.
C19_Witness ==
  /\ lastEvent = "click"
  /\ lastOp = "deletePointByActiveIndex"
  /\ hadDeletedPoints
  /\ Len(tablePoints) = Len(points) - 2
  /\ tablePoints # <<>>

\* C20: a mouse move, and a click in mode 'none', leave points,
\* deletedPoints and triangles as they are; a click in mode 'edge' leaves
\* points and deletedPoints and only sets deleted flags; a click in mode
\* 'point' leaves points and either changes nothing or soft-deletes one more
\* point and installs the triangulation of the active projection; and
\* editMode, 'none' at the start, is the mode of the mode button clicked
\* last.
C20_ClickFollowsMode ==
  /\ editMode = "none" /\ currentMode = "none"
  /\ [][ /\ editMode' = currentMode'
         /\ \A mode \in EditModes : clickModeButton(mode) => editMode' = mode
         /\ (\E mode \in EditModes : clickModeButton(mode)) \/ editMode' = editMode
         /\ \A intersectPoint \in Intersections :
              /\ onMouseMove(intersectPoint) =>
                   UNCHANGED <<points, deletedPoints, triangles>>
              /\ onClick(intersectPoint) =>
                   /\ editMode = "none" =>
                        UNCHANGED <<points, deletedPoints, triangles>>
                   /\ editMode = "edge" =>
                        /\ UNCHANGED <<points, deletedPoints>>
                        /\ Len(triangles') = Len(triangles)
                        /\ \A i \in DOMAIN triangles :
                             /\ triangles'[i].indices = triangles[i].indices
                             /\ triangles[i].deleted => triangles'[i].deleted
                   /\ editMode = "point" =>
                        /\ UNCHANGED points
                        /\ \/ UNCHANGED <<deletedPoints, triangles>>
                           \/ /\ \E raw \in 0..(Len(points) - 1) \ deletedPoints :
                                   deletedPoints' = deletedPoints \cup {raw}
                              /\ triangles' =
                                   triangulate(getActivePoints(points, deletedPoints'))
       ]_vars

\* A click in mode 'point' has just soft-deleted a point of a mesh whose
\* triangles clicks in mode 'edge' had flagged before.
C20_Witness ==
  /\ lastEvent = "click"
  /\ editMode = "point"
  /\ currentMode = "point"
  /\ lastOp = "deletePointByActiveIndex"
  /\ hadDeleted
  /\ result # {}

\* C21: a click on Regenerate leaves every triangle with deleted = false,
\* deletedPoints empty and points equal to the active projection of before,
\* so that the active projection, and the table, are the same sequence of
\* points as before and no soft-deleted point is back.
C21_RegenerateKeepsPointDeletions ==
  [][ clickRegenerate =>
        /\ NoneDeleted(triangles')
        /\ triangles' = triangulate(ActiveProjection)
        /\ deletedPoints' = {}
        /\ points' = ActiveProjection
        /\ getActivePoints(points', deletedPoints') = ActiveProjection
        /\ tablePoints' = tablePoints ]_vars

\* A click on Regenerate has just rebuilt a mesh that had a soft-deleted
\* point and a flagged triangle.
C21_Witness ==
  /\ lastEvent = "regenerate"
  /\ lastOp = "setPoints"
  /\ hadDeleted
  /\ hadDeletedPoints
  /\ triangles # <<>>
  /\ NoneDeleted(triangles)

\* The step is a regeneration: setPoints, regenerate, or
\* deletePointByActiveIndex with an index in range.
Regenerates ==
  \/ setPoints(points')
  \/ regenerate
  \/ \E activeIndex \in IndexInputs :
       ValidIndex(activeIndex) /\ deletePointByActiveIndex(activeIndex)

\* C22: a call that is no regeneration leaves the triangles in place and
\* clears no deleted flag, and sets one only if it is a deleteEdge; a
\* regeneration sets none; and deleteEdge(k) right after deleteEdge(k) finds
\* no triangle and changes no flag.
C22_FlagsOnlySetBetweenRegenerations ==
  [][ /\ ~Regenerates =>
           /\ Len(triangles') = Len(triangles)
           /\ \A i \in DOMAIN triangles :
                /\ triangles'[i].indices = triangles[i].indices
                /\ triangles[i].deleted => triangles'[i].deleted
           /\ triangles' # triangles =>
                \E edgeKey \in EdgeKeyInputs : deleteEdge(edgeKey)
      /\ Regenerates => NoneDeleted(triangles')
      /\ \A edgeKey \in EdgeKeyInputs :
           deleteEdge(edgeKey) =>
             /\ trianglesWithEdge(triangles', edgeKey) = <<>>
             /\ markDeleted(triangles', trianglesWithEdge(triangles', edgeKey))
                  = triangles' ]_vars

\* deleteEdge has just been called on a mesh that already had a flagged
\* triangle, and both triangles are flagged now.
C22_Witness ==
  /\ lastOp = "deleteEdge"
  /\ hadDeleted
  /\ Len(triangles) = 2
  /\ \A i \in 1..2 : triangles[i].deleted
  /\ observed.triangles = triangles

====
